---- MODULE Spec2Model ----
(***************************************************************************)
(* State-machine model of the ThreeCaptcha component (src/unnamed/part_000):*)
(* fixed-rate recorder, replayer, coordinate normaliser, end-effector      *)
(* controller and the animation tick.                                      *)
(*                                                                         *)
(* Units.  Simulation coordinates are integers in 1/1000 of a Three.js     *)
(* unit.  Physical coordinates are integers in 1/30000 of a metre, the     *)
(* coarsest unit in which the affine maps of normalizeCoordinates are      *)
(* exact on the simulation grid.  Times are integers in milliseconds; the  *)
(* clock advances in steps of half a frame interval.  Quaternion           *)
(* components are in 1/1000.                                               *)
(***************************************************************************)
EXTENDS Integers, Sequences, FiniteSets, TLC

\* ------------------------------------------------------------------ bounds
MaxFrames == 3        \* frames recordFixedFrame may append before the model stops it
MaxClock == 3         \* clock steps (half a frame interval each) the model lets pass
MaxTimers == 2        \* interval timers that may be alive at once
MaxEnds == 2          \* cap of the end-of-trajectory history counter
MaxGrid == 14         \* half-width of the coordinate grid, in steps of 0.25 unit

\* ------------------------------------------------------- program constants
FrameInterval == 100        \* 1000 / targetFPS, ms
SimHalf == 3000             \* the "+ 3" / "- 3" of the affine maps
SimSpan == 6000             \* the "/ 6" / "* 6" of the affine maps
PhysXMin == 6000            \* 0.20 m
PhysXMax == 12000           \* 0.40 m
PhysYMin == -6000           \* -0.20 m
PhysYMax == 6000            \* 0.20 m
PhysZFixed == 22800         \* 0.76 m
ROBOT_ARM_Y == 300          \* 0.3
ArmStartY == 400            \* 0.4
ActualHeight == 375         \* 0.375
SpawnY == 2500              \* 2.5
NumObjects == 3
ObjectRadius == 900         \* size * 1.2 = 0.75 * 1.2
RobotArmRadius == 450       \* 0.45
ArmMargin == 500            \* 0.5 extra safety margin
GridSpacing == 1200         \* 1.2
GridSize == 2               \* Math.ceil(Math.sqrt(3))

\* ------------------------------------------------------------------- state
VARIABLES
  sceneReady,        \* robotArmRef / objectsRef / worldRef assigned, animate running
  armPos,            \* RobotArm.position (= cylinder.position)
  armBody,           \* translation of the kinematic body of the arm
  meshes,            \* objectsRef[i].mesh : position and quaternion
  bodies,            \* objectsRef[i].body : translation and rotation
  isDragging,        \* closure variable of initPhysics
  isRecording,       \* React state, as the handlers' closures see it
  isReplaying,       \* React state, as the handlers' closures see it
  hasRecording,      \* React state
  renderPending,     \* a setIsReplaying(false) queued outside an event handler
  isRecordingRef,    \* isRecordingRef.current
  isReplayingRef,    \* isReplayingRef.current
  buffer,            \* recordingDataRef.current
  frameCount,        \* frameCountRef.current
  replayStartTime,   \* replayStartTimeRef.current
  intervalRef,       \* recordingIntervalRef.current is non-null
  liveTimers,        \* intervals created by setInterval and not yet cleared
  now,               \* performance.now()
  last,              \* history: the handler that ran last and what it did
  replayEnds,        \* history: end-of-trajectory stops since the last startReplay
  probe,             \* harness of the coordinate-normaliser specification
  place,             \* the placement loop of initPhysics: occupiedPositions, attempts
  mounted,           \* the component is in the React tree (mountRef.current is set)
  verify,            \* apiKey, isVerifying, verificationResult and the onVerify calls
  setup              \* initializedRef and what the effect's initPhysics calls created

vars == <<sceneReady, armPos, armBody, meshes, bodies, isDragging, isRecording,
          isReplaying, hasRecording, renderPending, isRecordingRef, isReplayingRef,
          buffer, frameCount, replayStartTime, intervalRef, liveTimers, now,
          last, replayEnds, probe, place, mounted, verify, setup>>

sceneVars == <<sceneReady, armPos, armBody, meshes, bodies, isDragging>>
recVars == <<isRecording, hasRecording, isRecordingRef, buffer, frameCount,
             intervalRef, liveTimers>>
replayVars == <<isReplaying, renderPending, isReplayingRef, replayStartTime>>
auxVars == <<probe, place, mounted, verify, setup>>

\* ----------------------------------------------------------------- helpers
Vec3(x, y, z) == [x |-> x, y |-> y, z |-> z]
Quat(x, y, z, w) == [x |-> x, y |-> y, z |-> z, w |-> w]
IdentityQuat == Quat(0, 0, 0, 1000)
Max(a, b) == IF a >= b THEN a ELSE b
Min(a, b) == IF a <= b THEN a ELSE b

\* Variant of normalizeCoordinates without the Math.max / Math.min clamp.
NormalizeNoClamp(x, y, z) ==
  [x |-> PhysXMin + ((x + SimHalf) * (PhysXMax - PhysXMin)) \div SimSpan,
   y |-> PhysYMin + ((z + SimHalf) * (PhysYMax - PhysYMin)) \div SimSpan]

\* normalizeCoordinates(x, y, z): the affine map, then the clamp.
normalizeCoordinates(x, y, z) ==
  LET normalizedX == PhysXMin + ((x + SimHalf) * (PhysXMax - PhysXMin)) \div SimSpan
      normalizedY == PhysYMin + ((z + SimHalf) * (PhysYMax - PhysYMin)) \div SimSpan
  IN [x |-> Max(PhysXMin, Min(PhysXMax, normalizedX)),
      y |-> Max(PhysYMin, Min(PhysYMax, normalizedY))]

\* Variant of denormalizeCoordinates without the "- 3" offset.
DenormalizeShifted(normalizedX, normalizedY) ==
  [x |-> ((normalizedX - PhysXMin) * SimSpan) \div (PhysXMax - PhysXMin),
   z |-> ((normalizedY - PhysYMin) * SimSpan) \div (PhysYMax - PhysYMin)]

\* Variant of denormalizeCoordinates that clamps its result to the table.
DenormalizeClamped(normalizedX, normalizedY) ==
  [x |-> Max(-SimHalf, Min(SimHalf,
           ((normalizedX - PhysXMin) * SimSpan) \div (PhysXMax - PhysXMin) - SimHalf)),
   z |-> Max(-SimHalf, Min(SimHalf,
           ((normalizedY - PhysYMin) * SimSpan) \div (PhysYMax - PhysYMin) - SimHalf))]

\* denormalizeCoordinates(normalizedX, normalizedY): the inverse map, no clamp.
denormalizeCoordinates(normalizedX, normalizedY) ==
  [x |-> ((normalizedX - PhysXMin) * SimSpan) \div (PhysXMax - PhysXMin)
           - SimHalf,
   z |-> ((normalizedY - PhysYMin) * SimSpan) \div (PhysYMax - PhysYMin)
           - SimHalf]

\* ------------------------------------------------------------- placement
\* Outcomes of the two Math.random() draws of one attempt that the model
\* considers, inside the play area -1.75 .. 1.75.
SamplePoints == {<<300, -200>>}   \* too close to the arm: rejected

Sq(a) == a * a

\* Variant of isPositionValid whose pairwise check leaves out pos.radius * 2.
isPositionValidNoPairMargin(x, z, radius, occupiedPositions) ==
  LET minDistance == radius * 4
      minDistanceFromRobotArm == RobotArmRadius + radius + ArmMargin
  IN /\ ~(Sq(x - 0) + Sq(z - 0) < Sq(minDistanceFromRobotArm))
     /\ \A k \in 1..Len(occupiedPositions) :
          LET pos == occupiedPositions[k]
          IN ~(Sq(x - pos.x) + Sq(z - pos.z) < Sq(minDistance))

\* isPositionValid(x, z, radius) against occupiedPositions; distances are
\* compared by their squares.
isPositionValid(x, z, radius, occupiedPositions) ==
  LET minDistance == radius * 4
      minDistanceFromRobotArm == RobotArmRadius + radius + ArmMargin
  IN /\ ~(Sq(x - 0) + Sq(z - 0) < Sq(minDistanceFromRobotArm))
     /\ \A k \in 1..Len(occupiedPositions) :
          LET pos == occupiedPositions[k]
          IN ~(Sq(x - pos.x) + Sq(z - pos.z) < Sq(minDistance + pos.radius * 2))

\* The grid pattern used when the attempts are exhausted.
GridFallback(gridIndex) ==
  LET gridX == (gridIndex % GridSize) - GridSize \div 2
      gridZ == (gridIndex \div GridSize) - GridSize \div 2
  IN [x |-> gridX * GridSpacing, z |-> gridZ * GridSpacing, radius |-> ObjectRadius]

\* Where the sampling loop can leave one object: a valid sample, or the grid.
PlacementOutcomes(occupiedPositions) ==
  {[x |-> s[1], z |-> s[2], radius |-> ObjectRadius] :
      s \in {t \in SamplePoints : isPositionValid(t[1], t[2], ObjectRadius, occupiedPositions)}}
  \cup {GridFallback(Len(occupiedPositions))}

RECURSIVE PlaceFrom(_)
PlaceFrom(occupiedPositions) ==
  IF Len(occupiedPositions) = NumObjects
  THEN {occupiedPositions}
  ELSE UNION {PlaceFrom(Append(occupiedPositions, p)) :
                p \in PlacementOutcomes(occupiedPositions)}

Placements == PlaceFrom(<<>>)

\* The colour of each object, by creation index: objects[i] gets colors[i].
colors == <<"red", "green", "blue">>

\* mesh.position.set(x, 2.5, z) / body.setTranslation({x, y, z})
SpawnPose(p) == [position |-> Vec3(p.x, SpawnY, p.z), rotation |-> IdentityQuat]

\* ----------------------------------------------------------- physics step
\* world.step() is the rigid-body engine's; the model offers a bounded menu
\* of results: the bodies settled on the table where they are (a body at
\* rest stays as it is), and the first body knocked past the table edge,
\* tilted.
TiltedQuat == Quat(0, 600, 0, 800)
Settled(b) == [i \in DOMAIN b |->
                 [b[i] EXCEPT !.position = Vec3(b[i].position.x, ActualHeight, b[i].position.z)]]
Knocked(b) == [i \in DOMAIN b |->
                 IF i = 1 THEN [position |-> Vec3(3300, ActualHeight, -3600), rotation |-> TiltedQuat]
                 ELSE Settled(b)[i]]
StepOutcomes(b) == {Settled(b), Knocked(b)}

\* Points where the picking ray meets the ground plane (x, z); the plane is
\* unbounded, so a point may lie beyond the table.
PointerHits == {<<3600, -3300>>}
NoHit == <<>>

\* ------------------------------------------------------------------- Init
\* The placement loop outside the placement specification: not running.
PlaceIdle == [phase |-> "idle", occupiedPositions |-> <<>>, attempts |-> 0, used |-> <<>>]

\* useState('') / useState(false) / useState(null); onVerify not yet called.
VerifyIdle == [apiKey |-> FALSE, isVerifying |-> FALSE, verificationResult |-> "null",
               calls |-> 0, reported |-> "none"]

\* The effect's bookkeeping outside the initialisation specification, where
\* InitPhysics stands for the one initPhysics call and its completion.
SetupIdle == [initializedRef |-> TRUE, pending |-> 0, calls |-> 1, worlds |-> 0,
              loops |-> 0, failed |-> FALSE]

NoProbe == [stage |-> "off", x |-> 0, z |-> 0, px |-> 0, py |-> 0, bx |-> 0, bz |-> 0,
            rx |-> 0, ry |-> 0]

\* Values of the history variable `last`: a handler ran its main path; a
\* handler returned early without doing anything; an animation tick, with
\* what it did.
Ran == [op |-> "ran"]
Skipped(handler) == [op |-> "skipped", handler |-> handler]
Tick(stepped, synced, imposed, ended) ==
  [op |-> "tick", stepped |-> stepped, synced |-> synced, imposed |-> imposed,
   ended |-> ended]

InitMain ==
  /\ sceneReady = FALSE
  /\ armPos = Vec3(0, ArmStartY, 0)
  /\ armBody = Vec3(0, ArmStartY, 0)
  /\ meshes = <<>>
  /\ bodies = <<>>
  /\ isDragging = FALSE
  /\ isRecording = FALSE
  /\ isReplaying = FALSE
  /\ hasRecording = FALSE
  /\ renderPending = FALSE
  /\ isRecordingRef = FALSE
  /\ isReplayingRef = FALSE
  /\ buffer = <<>>
  /\ frameCount = 0
  /\ replayStartTime = 0
  /\ intervalRef = FALSE
  /\ liveTimers = 0
  /\ now = 0
  /\ last = Ran
  /\ replayEnds = 0

Init ==
  /\ InitMain
  /\ probe = NoProbe
  /\ place = PlaceIdle
  /\ mounted = TRUE
  /\ verify = VerifyIdle
  /\ setup = SetupIdle

\* --------------------------------------------------------------- recorder
\* Variant of the frame builder that lists the objects last to first.
FrameOfReversed(count, robotPos, objs) ==
  LET normalizedRobotPos == normalizeCoordinates(robotPos.x, robotPos.y, robotPos.z)
      objectStates ==
        [i \in DOMAIN objs |->
           LET j == Len(objs) + 1 - i
               normalizedObjPos ==
                 normalizeCoordinates(objs[j].position.x, objs[j].position.y, objs[j].position.z)
           IN [position |-> Vec3(normalizedObjPos.x, normalizedObjPos.y, PhysZFixed),
               rotation |-> Quat(objs[j].rotation.x, objs[j].rotation.z,
                                 objs[j].rotation.y, objs[j].rotation.w)]]
  IN [timestamp |-> count * FrameInterval,
      robotArm |-> Vec3(normalizedRobotPos.x, normalizedRobotPos.y, PhysZFixed),
      objects |-> objectStates]

\* The frame recordFixedFrame builds from the arm position and the meshes.
FrameOf(count, robotPos, objs) ==
  LET normalizedRobotPos == normalizeCoordinates(robotPos.x, robotPos.y, robotPos.z)
      objectStates ==
        [i \in DOMAIN objs |->
           LET normalizedObjPos ==
                 normalizeCoordinates(objs[i].position.x, objs[i].position.y, objs[i].position.z)
           IN [position |-> Vec3(normalizedObjPos.x, normalizedObjPos.y, PhysZFixed),
               rotation |-> Quat(objs[i].rotation.x, objs[i].rotation.z,
                                 objs[i].rotation.y, objs[i].rotation.w)]]
  IN [timestamp |-> count * FrameInterval,
      robotArm |-> Vec3(normalizedRobotPos.x, normalizedRobotPos.y, PhysZFixed),
      objects |-> objectStates]

\* Variant of recordFixedFrame that puts the new frame first (unshift).
recordFixedFramePrepends ==
  IF ~sceneReady
  THEN UNCHANGED <<buffer, frameCount>>
  ELSE /\ buffer' = <<FrameOf(frameCount, armPos, meshes)>> \o buffer
       /\ frameCount' = frameCount + 1

\* Variant of recordFixedFrame that counts the frame before its refs check.
recordFixedFrameCountsEarly ==
  IF ~sceneReady
  THEN /\ buffer' = buffer
       /\ frameCount' = frameCount + 1
  ELSE /\ buffer' = Append(buffer, FrameOf(frameCount, armPos, meshes))
       /\ frameCount' = frameCount + 1

\* recordFixedFrame(): nothing before the scene exists; else append and count.
recordFixedFrame ==
  IF ~sceneReady
  THEN UNCHANGED <<buffer, frameCount>>
  ELSE /\ buffer' = Append(buffer, FrameOf(frameCount, armPos, meshes))
       /\ frameCount' = frameCount + 1

\* Variant of the setInterval callback without the isRecordingRef check.
TimerCallbackUnguarded ==
  /\ liveTimers > 0
  /\ sceneReady => frameCount < MaxFrames
  /\ recordFixedFrame
  /\ last' = IF sceneReady THEN Ran ELSE Skipped("timer")
  /\ UNCHANGED <<sceneVars, replayVars, isRecording, hasRecording, isRecordingRef,
                 intervalRef, liveTimers, now, replayEnds, auxVars>>

\* The setInterval callback of startRecording.
TimerCallback ==
  /\ liveTimers > 0
  /\ (isRecordingRef /\ sceneReady) => frameCount < MaxFrames
  /\ IF isRecordingRef THEN recordFixedFrame ELSE UNCHANGED <<buffer, frameCount>>
  /\ last' = IF isRecordingRef /\ sceneReady THEN Ran ELSE Skipped("timer")
  /\ UNCHANGED <<sceneVars, replayVars, isRecording, hasRecording, isRecordingRef,
                 intervalRef, liveTimers, now, replayEnds, auxVars>>

\* Variant of startRecording without the reset of frameCountRef.
StartRecordingKeepsCount ==
  /\ ~isReplaying => liveTimers < MaxTimers
  /\ IF isReplaying
     THEN /\ last' = Skipped("startRecording")
          /\ UNCHANGED recVars
     ELSE /\ buffer' = <<>>
          /\ frameCount' = frameCount
          /\ isRecording' = TRUE
          /\ isRecordingRef' = TRUE
          /\ intervalRef' = TRUE
          /\ liveTimers' = liveTimers + 1
          /\ hasRecording' = hasRecording
          /\ last' = Ran
  /\ UNCHANGED <<sceneVars, replayVars, now, replayEnds, auxVars>>

\* Variant of startRecording without the reset of recordingDataRef.
StartRecordingKeepsFrames ==
  /\ ~isReplaying => liveTimers < MaxTimers
  /\ IF isReplaying
     THEN /\ last' = Skipped("startRecording")
          /\ UNCHANGED recVars
     ELSE /\ buffer' = buffer
          /\ frameCount' = Len(buffer)
          /\ isRecording' = TRUE
          /\ isRecordingRef' = TRUE
          /\ intervalRef' = TRUE
          /\ liveTimers' = liveTimers + 1
          /\ hasRecording' = hasRecording
          /\ last' = Ran
  /\ UNCHANGED <<sceneVars, replayVars, now, replayEnds, auxVars>>

\* Variant of startRecording without the isReplaying check.
StartRecordingUnguarded ==
  /\ liveTimers < MaxTimers
  /\ buffer' = <<>>
  /\ frameCount' = 0
  /\ isRecording' = TRUE
  /\ isRecordingRef' = TRUE
  /\ intervalRef' = TRUE
  /\ liveTimers' = liveTimers + 1
  /\ hasRecording' = hasRecording
  /\ last' = Ran
  /\ UNCHANGED <<sceneVars, replayVars, now, replayEnds, auxVars>>

\* Variant of startRecording that reads isReplayingRef in place of the
\* isReplaying state.
StartRecordingChecksRef ==
  /\ ~isReplayingRef => liveTimers < MaxTimers
  /\ IF isReplayingRef
     THEN /\ last' = Skipped("startRecording")
          /\ UNCHANGED recVars
     ELSE /\ buffer' = <<>>
          /\ frameCount' = 0
          /\ isRecording' = TRUE
          /\ isRecordingRef' = TRUE
          /\ intervalRef' = TRUE
          /\ liveTimers' = liveTimers + 1
          /\ hasRecording' = hasRecording
          /\ last' = Ran
  /\ UNCHANGED <<sceneVars, replayVars, now, replayEnds, auxVars>>

\* startRecording(): rejected while the isReplaying state is set.  The store
\* to recordingStartTimeRef is never read and is left out.
StartRecording ==
  /\ ~isReplaying => liveTimers < MaxTimers
  /\ IF isReplaying
     THEN /\ last' = Skipped("startRecording")
          /\ UNCHANGED recVars
     ELSE /\ buffer' = <<>>
          /\ frameCount' = 0
          /\ isRecording' = TRUE
          /\ isRecordingRef' = TRUE
          /\ intervalRef' = TRUE
          /\ liveTimers' = liveTimers + 1
          /\ hasRecording' = hasRecording
          /\ last' = Ran
  /\ UNCHANGED <<sceneVars, replayVars, now, replayEnds, auxVars>>

\* Variant of stopRecording without the else branch setHasRecording(false).
StopRecordingNeverClears ==
  /\ isRecording' = FALSE
  /\ isRecordingRef' = FALSE
  /\ IF intervalRef
     THEN /\ liveTimers' = liveTimers - 1
          /\ intervalRef' = FALSE
     ELSE UNCHANGED <<liveTimers, intervalRef>>
  /\ hasRecording' = (hasRecording \/ Len(buffer) > 0)
  /\ last' = Ran
  /\ UNCHANGED <<sceneVars, replayVars, buffer, frameCount, now, replayEnds, auxVars>>

\* Variant of stopRecording that calls setHasRecording(true) on both branches.
StopRecordingAlwaysHas ==
  /\ isRecording' = FALSE
  /\ isRecordingRef' = FALSE
  /\ IF intervalRef
     THEN /\ liveTimers' = liveTimers - 1
          /\ intervalRef' = FALSE
     ELSE UNCHANGED <<liveTimers, intervalRef>>
  /\ hasRecording' = TRUE
  /\ last' = Ran
  /\ UNCHANGED <<sceneVars, replayVars, buffer, frameCount, now, replayEnds, auxVars>>

\* stopRecording()
StopRecording ==
  /\ isRecording' = FALSE
  /\ isRecordingRef' = FALSE
  /\ IF intervalRef
     THEN /\ liveTimers' = liveTimers - 1
          /\ intervalRef' = FALSE
     ELSE UNCHANGED <<liveTimers, intervalRef>>
  /\ hasRecording' = (Len(buffer) > 0)
  /\ last' = Ran
  /\ UNCHANGED <<sceneVars, replayVars, buffer, frameCount, now, replayEnds, auxVars>>

\* --------------------------------------------------------------- replayer
\* Variant of startReplay without the isRecording check.
StartReplayIgnoresRecording ==
  /\ IF ~hasRecording
     THEN /\ last' = Skipped("startReplay")
          /\ UNCHANGED <<replayVars, replayEnds>>
     ELSE /\ replayStartTime' = now
          /\ isReplaying' = TRUE
          /\ isReplayingRef' = TRUE
          /\ renderPending' = FALSE
          /\ replayEnds' = 0
          /\ last' = Ran
  /\ UNCHANGED <<sceneVars, recVars, now, auxVars>>

\* startReplay(): rejected without a recording or while recording.
StartReplay ==
  /\ IF ~hasRecording \/ isRecording
     THEN /\ last' = Skipped("startReplay")
          /\ UNCHANGED <<replayVars, replayEnds>>
     ELSE /\ replayStartTime' = now
          /\ isReplaying' = TRUE
          /\ isReplayingRef' = TRUE
          /\ renderPending' = FALSE
          /\ replayEnds' = 0
          /\ last' = Ran
  /\ UNCHANGED <<sceneVars, recVars, now, auxVars>>

\* Variant of stopReplay that clears the state flag and leaves the ref.
StopReplayKeepsRef ==
  /\ isReplaying' = FALSE
  /\ isReplayingRef' = isReplayingRef
  /\ renderPending' = FALSE
  /\ last' = Ran
  /\ UNCHANGED <<sceneVars, recVars, replayStartTime, now, replayEnds, auxVars>>

\* stopReplay() from the Stop Replay button: the event handler's state update
\* is rendered before the next event.
StopReplay ==
  /\ isReplaying' = FALSE
  /\ isReplayingRef' = FALSE
  /\ renderPending' = FALSE
  /\ last' = Ran
  /\ UNCHANGED <<sceneVars, recVars, replayStartTime, now, replayEnds, auxVars>>

\* React renders a state update queued outside an event handler (stopReplay
\* called by the animation tick) in a later task.
Render ==
  /\ renderPending
  /\ isReplaying' = FALSE
  /\ renderPending' = FALSE
  /\ last' = Ran
  /\ UNCHANGED <<sceneVars, recVars, isReplayingRef, replayStartTime, now,
                 replayEnds, auxVars>>

\* Variant of the frame lookup with > in place of >=.
FindFrameStrict(buf, currentTime) ==
  LET hits == {k \in 1..Len(buf) : buf[k].timestamp > currentTime}
  IN IF hits = {} THEN 0 ELSE CHOOSE k \in hits : \A j \in hits : k <= j

\* Variant of the frame lookup that falls back to the last frame when no
\* frame is at or after currentTime.
FindFrameOrLast(buf, currentTime) ==
  LET hits == {k \in 1..Len(buf) : buf[k].timestamp >= currentTime}
  IN IF hits = {} THEN Len(buf) ELSE CHOOSE k \in hits : \A j \in hits : k <= j

\* recordingDataRef.current.find(f => f.timestamp >= currentTime), as an
\* index into the buffer; 0 when find returns undefined.
FindFrame(buf, currentTime) ==
  LET hits == {k \in 1..Len(buf) : buf[k].timestamp >= currentTime}
  IN IF hits = {} THEN 0 ELSE CHOOSE k \in hits : \A j \in hits : k <= j

\* Variant of the replayed pose that passes the stored rotation channels
\* through in their stored order.
ReplayedPoseStoredOrder(objState) ==
  LET objThreePos == denormalizeCoordinates(objState.position.x, objState.position.y)
  IN [position |-> Vec3(objThreePos.x, ActualHeight, objThreePos.z),
      rotation |-> Quat(objState.rotation.x, objState.rotation.y,
                        objState.rotation.z, objState.rotation.w)]

\* Variant of the replayed pose that takes the height from the stored z.
ReplayedPoseStoredHeight(objState) ==
  LET objThreePos == denormalizeCoordinates(objState.position.x, objState.position.y)
  IN [position |-> Vec3(objThreePos.x, objState.position.z, objThreePos.z),
      rotation |-> Quat(objState.rotation.x, objState.rotation.z,
                        objState.rotation.y, objState.rotation.w)]

\* The pose replayFrame gives object `index` from a frame's objState.
ReplayedPose(objState) ==
  LET objThreePos == denormalizeCoordinates(objState.position.x, objState.position.y)
  IN [position |-> Vec3(objThreePos.x, ActualHeight, objThreePos.z),
      rotation |-> Quat(objState.rotation.x, objState.rotation.z,
                        objState.rotation.y, objState.rotation.w)]

ReplayedArm(frame) ==
  LET robotArmThreePos == denormalizeCoordinates(frame.robotArm.x, frame.robotArm.y)
  IN Vec3(robotArmThreePos.x, ROBOT_ARM_Y, robotArmThreePos.z)

\* Variant of setPosition without the rigidBody.setTranslation call.
SetPositionMeshOnly(position) ==
  /\ armPos' = position
  /\ armBody' = armBody

\* RobotArm.setPosition(position)
SetPosition(position) ==
  /\ armPos' = position
  /\ armBody' = position

\* Variant of stopReplay that leaves isReplayingRef set.
StopReplayStateOnly ==
  /\ renderPending' = TRUE
  /\ UNCHANGED <<isReplaying, isReplayingRef, replayStartTime>>

\* stopReplay() as replayFrame calls it, outside an event handler: the ref is
\* cleared at once, the state update is queued for a later render.
stopReplayInTick ==
  /\ isReplayingRef' = FALSE
  /\ renderPending' = TRUE
  /\ UNCHANGED <<isReplaying, replayStartTime>>

\* Variant of replayFrame without the body.setTranslation / body.setRotation
\* calls: only the meshes follow the frame.
replayFrameMeshesOnly(b, m, ap, ab, didStep) ==
  LET currentTime == now - replayStartTime
      idx == FindFrame(buffer, currentTime)
  IN IF idx > 0
     THEN /\ SetPosition(ReplayedArm(buffer[idx]))
          /\ meshes' = [i \in DOMAIN m |->
                          IF i \in DOMAIN buffer[idx].objects
                          THEN ReplayedPose(buffer[idx].objects[i]) ELSE m[i]]
          /\ bodies' = b
          /\ last' = Tick(didStep, FALSE, TRUE, FALSE)
          /\ UNCHANGED <<replayVars, replayEnds>>
     ELSE /\ armPos' = ap /\ armBody' = ab /\ meshes' = m /\ bodies' = b
          /\ IF Len(buffer) > 0 /\ currentTime > buffer[Len(buffer)].timestamp
             THEN /\ stopReplayInTick
                  /\ replayEnds' = Min(replayEnds + 1, MaxEnds)
                  /\ last' = Tick(didStep, FALSE, FALSE, TRUE)
             ELSE /\ last' = Tick(didStep, FALSE, FALSE, FALSE)
                  /\ UNCHANGED <<replayVars, replayEnds>>

\* replayFrame(), called by a tick that saw isReplayingRef set; b and m are
\* the bodies and meshes the tick has at that point, didStep whether the
\* tick stepped the world before.
replayFrame(b, m, ap, ab, didStep) ==
  LET currentTime == now - replayStartTime
      idx == FindFrame(buffer, currentTime)
  IN IF idx > 0
     THEN /\ SetPosition(ReplayedArm(buffer[idx]))
          /\ meshes' = [i \in DOMAIN m |->
                          IF i \in DOMAIN buffer[idx].objects
                          THEN ReplayedPose(buffer[idx].objects[i]) ELSE m[i]]
          /\ bodies' = [i \in DOMAIN b |->
                          IF i \in DOMAIN buffer[idx].objects
                          THEN ReplayedPose(buffer[idx].objects[i]) ELSE b[i]]
          /\ last' = Tick(didStep, FALSE, TRUE, FALSE)
          /\ UNCHANGED <<replayVars, replayEnds>>
     ELSE /\ armPos' = ap /\ armBody' = ab /\ meshes' = m /\ bodies' = b
          /\ IF Len(buffer) > 0 /\ currentTime > buffer[Len(buffer)].timestamp
             THEN /\ stopReplayInTick
                  /\ replayEnds' = Min(replayEnds + 1, MaxEnds)
                  /\ last' = Tick(didStep, FALSE, FALSE, TRUE)
             ELSE /\ last' = Tick(didStep, FALSE, FALSE, FALSE)
                  /\ UNCHANGED <<replayVars, replayEnds>>

\* ------------------------------------------------------------------- tick
\* The sync of the live branch: every mesh takes its body's pose.
SyncMeshes(b) == [i \in DOMAIN b |-> [position |-> b[i].position, rotation |-> b[i].rotation]]

\* Variant of animate that steps the world in replay ticks too.
AnimateAlwaysSteps(b, m, ap, ab) ==
  \E stepped \in StepOutcomes(b) :
    IF ~isReplayingRef
    THEN /\ bodies' = stepped
         /\ meshes' = SyncMeshes(stepped)
         /\ armPos' = ap
         /\ armBody' = ab
         /\ last' = Tick(TRUE, TRUE, FALSE, FALSE)
         /\ UNCHANGED <<replayVars, replayEnds>>
    ELSE replayFrame(stepped, m, ap, ab, TRUE)

\* One run of animate() from bodies b, meshes m and arm pose ap / ab: the
\* world is stepped unless replaying; then either replayFrame or the sync.
AnimateFrom(b, m, ap, ab) ==
  IF ~isReplayingRef
  THEN /\ \E stepped \in StepOutcomes(b) :
            /\ bodies' = stepped
            /\ meshes' = SyncMeshes(stepped)
       /\ armPos' = ap
       /\ armBody' = ab
       /\ last' = Tick(TRUE, TRUE, FALSE, FALSE)
       /\ UNCHANGED <<replayVars, replayEnds>>
  ELSE replayFrame(b, m, ap, ab, FALSE)

\* Variant of animate whose recordFrame() call appends a frame in every live
\* tick of a recording.
AnimateRecords ==
  /\ sceneReady
  /\ (isRecordingRef /\ ~isReplayingRef) => frameCount < MaxFrames
  /\ AnimateFrom(bodies, meshes, armPos, armBody)
  /\ IF isRecordingRef /\ ~isReplayingRef
     THEN /\ buffer' = Append(buffer, FrameOf(frameCount, armPos', meshes'))
          /\ frameCount' = frameCount + 1
     ELSE UNCHANGED <<buffer, frameCount>>
  /\ UNCHANGED <<sceneReady, isDragging, isRecording, hasRecording, isRecordingRef,
                 intervalRef, liveTimers, now, auxVars>>

\* requestAnimationFrame callback.  recordFrame(), called in the live branch,
\* does nothing: frames come from the interval callback only.
Animate ==
  /\ sceneReady
  /\ AnimateFrom(bodies, meshes, armPos, armBody)
  /\ UNCHANGED <<sceneReady, isDragging, recVars, now, auxVars>>

\* initPhysics() after RAPIER.init() resolved: world, arm, the three objects,
\* the listeners, and the first animate() call.
InitPhysics ==
  /\ ~sceneReady
  /\ sceneReady' = TRUE
  /\ isDragging' = FALSE
  /\ \E pl \in Placements :
       LET spawned == [i \in 1..NumObjects |-> SpawnPose(pl[i])]
       IN AnimateFrom(spawned, spawned,
                      Vec3(0, ArmStartY, 0), Vec3(0, ArmStartY, 0))
  /\ UNCHANGED <<recVars, now, auxVars>>

\* --------------------------------------------------------------- controller
\* onPointerDown: the listeners exist once initPhysics has run.
OnPointerDown ==
  /\ sceneReady
  /\ \E intersection \in PointerHits \cup {NoHit} :
       IF intersection # NoHit
       THEN /\ isDragging' = TRUE
            /\ SetPosition(Vec3(intersection[1], ROBOT_ARM_Y, intersection[2]))
            /\ last' = Ran
       ELSE /\ UNCHANGED <<isDragging, armPos, armBody>>
            /\ last' = Skipped("pointerDown")
  /\ UNCHANGED <<sceneReady, meshes, bodies, recVars, replayVars, now, replayEnds, auxVars>>

\* Variant of onPointerMove without the isDragging check.
OnPointerMoveAlways ==
  /\ sceneReady
  /\ \E intersection \in PointerHits \cup {NoHit} :
       IF intersection # NoHit
       THEN /\ SetPosition(Vec3(intersection[1], ROBOT_ARM_Y, intersection[2]))
            /\ last' = Ran
       ELSE /\ UNCHANGED <<armPos, armBody>>
            /\ last' = Skipped("pointerMove")
  /\ UNCHANGED <<sceneReady, isDragging, meshes, bodies, recVars, replayVars, now,
                 replayEnds, auxVars>>

\* onPointerMove: returns at once outside a drag.
OnPointerMove ==
  /\ sceneReady
  /\ \E intersection \in PointerHits \cup {NoHit} :
       IF isDragging /\ intersection # NoHit
       THEN /\ SetPosition(Vec3(intersection[1], ROBOT_ARM_Y, intersection[2]))
            /\ last' = Ran
       ELSE /\ UNCHANGED <<armPos, armBody>>
            /\ last' = Skipped("pointerMove")
  /\ UNCHANGED <<sceneReady, isDragging, meshes, bodies, recVars, replayVars, now,
                 replayEnds, auxVars>>

OnPointerUp ==
  /\ sceneReady
  /\ isDragging' = FALSE
  /\ last' = Ran
  /\ UNCHANGED <<sceneReady, armPos, armBody, meshes, bodies, recVars, replayVars,
                 now, replayEnds, auxVars>>

\* ------------------------------------------------------------------ export
\* Number.prototype.toFixed: the value as a count of its last printed decimal.
\* Timestamps are milliseconds printed with 3 decimals, physical coordinates
\* are 1/30000 m printed with 6 decimals, quaternion components are 1/1000
\* printed with 6 decimals.
RoundDiv(n, d) == IF n >= 0 THEN (2 * n + d) \div (2 * d) ELSE -((2 * (-n) + d) \div (2 * d))
TimestampToFixed3(t) == t * 1000
CoordToFixed6(v) == RoundDiv(v * 100, 3)
QuatToFixed6(q) == q * 1000

\* The header line: four fixed columns, then seven per object of the first frame.
CsvHeader(objectCount) ==
  LET ObjectColumns(i) ==
        <<<<"Object", i, "Pos_X">>, <<"Object", i, "Pos_Y">>, <<"Object", i, "Pos_Z">>,
          <<"Object", i, "Rot_X">>, <<"Object", i, "Rot_Y">>, <<"Object", i, "Rot_Z">>,
          <<"Object", i, "Rot_W">>>>
      F[i \in 0..objectCount] ==
        IF i = 0
        THEN <<"Timestamp", "RobotArm_X", "RobotArm_Y", "RobotArm_Z">>
        ELSE F[i - 1] \o ObjectColumns(i)
  IN F[objectCount]

\* Variant of the row builder without the rotation columns.
CsvRowPositionsOnly(frame) ==
  LET ObjectFields(obj) ==
        <<CoordToFixed6(obj.position.x), CoordToFixed6(obj.position.y),
          CoordToFixed6(obj.position.z)>>
      F[i \in 0..Len(frame.objects)] ==
        IF i = 0
        THEN <<TimestampToFixed3(frame.timestamp), CoordToFixed6(frame.robotArm.x),
               CoordToFixed6(frame.robotArm.y), CoordToFixed6(frame.robotArm.z)>>
        ELSE F[i - 1] \o ObjectFields(frame.objects[i])
  IN F[Len(frame.objects)]

\* One data line: the fields of a frame in the order the template strings
\* print them.
CsvRow(frame) ==
  LET ObjectFields(obj) ==
        <<CoordToFixed6(obj.position.x), CoordToFixed6(obj.position.y),
          CoordToFixed6(obj.position.z), QuatToFixed6(obj.rotation.x),
          QuatToFixed6(obj.rotation.y), QuatToFixed6(obj.rotation.z),
          QuatToFixed6(obj.rotation.w)>>
      F[i \in 0..Len(frame.objects)] ==
        IF i = 0
        THEN <<TimestampToFixed3(frame.timestamp), CoordToFixed6(frame.robotArm.x),
               CoordToFixed6(frame.robotArm.y), CoordToFixed6(frame.robotArm.z)>>
        ELSE F[i - 1] \o ObjectFields(frame.objects[i])
  IN F[Len(frame.objects)]

\* csvContent: [csvHeader, ...csvRows], one line per element.
CsvContent(buf) ==
  <<CsvHeader(Len(buf[1].objects))>> \o [k \in 1..Len(buf) |-> CsvRow(buf[k])]

\* History value: the file handed to the browser for download.
Exported(csvContent) == [op |-> "export", csv |-> csvContent]

\* saveRecordingAsCSV(): refused without a recording, else a download.
SaveRecordingAsCSV ==
  /\ last' = IF ~hasRecording \/ Len(buffer) = 0
             THEN Skipped("saveRecordingAsCSV")
             ELSE Exported(CsvContent(buffer))
  /\ UNCHANGED <<sceneVars, recVars, replayVars, now, replayEnds, auxVars>>

\* ------------------------------------------------------------------ clock
\* Variant of the clock that can also step back, as a wall clock under
\* adjustment does.
ClockStepsBackToo ==
  /\ isReplayingRef
  /\ \/ /\ now < MaxClock * (FrameInterval \div 2)
        /\ now' = now + FrameInterval \div 2
     \/ /\ now > replayStartTime
        /\ now' = now - FrameInterval \div 2
  /\ last' = Ran
  /\ UNCHANGED <<sceneVars, recVars, replayVars, replayEnds, auxVars>>

\* performance.now() is read by startReplay and replayFrame only (the stores
\* of startRecording and animate are never read), so the model lets the
\* clock advance only while a replay is running.
ClockAdvance ==
  /\ isReplayingRef
  /\ now < MaxClock * (FrameInterval \div 2)
  /\ now' = now + FrameInterval \div 2
  /\ last' = Ran
  /\ UNCHANGED <<sceneVars, recVars, replayVars, replayEnds, auxVars>>

Next ==
  \/ InitPhysics
  \/ StartRecording
  \/ StopRecording
  \/ TimerCallback
  \/ StartReplay
  \/ StopReplay
  \/ Render
  \/ Animate
  \/ OnPointerDown
  \/ OnPointerMove
  \/ OnPointerUp
  \/ SaveRecordingAsCSV
  \/ ClockAdvance

Spec == Init /\ [][Next]_vars

\* ------------------------------------------------------------ verification
\* verify.apiKey is "apiKey.trim() is not empty"; verify.calls counts the
\* onVerify calls and verify.reported is the argument of the last one ("none",
\* "true", "false"); App keeps that argument as its isVerified state.
MaxVerifications == 2

\* Response texts are sequences of tokens; the upper-case tokens stand for the
\* literal words of the prompt, the lower-case ones for the same words in
\* lower case, "x" for any other text.
Texts ==
  {<<>>, <<"x">>, <<"VERIFIED">>, <<"verified">>, <<"x", "VERIFIED">>,
   <<"NOT_", "VERIFIED">>, <<"not_", "verified">>, <<"NOT_", "x">>,
   <<"VERIFIED", "x", "NOT_", "VERIFIED">>}

\* What the awaited fetch / response.json() can deliver: a rejected fetch, or
\* a response with its ok flag, whether its body parses as JSON, and the text
\* of the first candidate (empty when the path candidates[0]... is missing or
\* the body did not parse).
Responses ==
  {[kind |-> "networkError", ok |-> FALSE, json |-> FALSE, text |-> <<>>]}
  \cup {[kind |-> "http", ok |-> ok, json |-> FALSE, text |-> <<>>] : ok \in BOOLEAN}
  \cup {[kind |-> "http", ok |-> ok, json |-> TRUE, text |-> text] :
           ok \in BOOLEAN, text \in Texts}

\* String.prototype.toUpperCase
toUpperCase(text) ==
  [i \in DOMAIN text |->
     CASE text[i] = "verified" -> "VERIFIED"
       [] text[i] = "not_" -> "NOT_"
       [] OTHER -> text[i]]

\* String.prototype.includes
includes(text, pattern) ==
  \E i \in 0..(Len(text) - Len(pattern)) : SubSeq(text, i + 1, i + Len(pattern)) = pattern

VERIFIED == <<"VERIFIED">>
NOT_VERIFIED == <<"NOT_", "VERIFIED">>

\* History value: the catch block of verifyWithGemini ran (it alerts).
Caught == [op |-> "caught"]

\* onVerify(v): App.handleVerification stores v.
onVerify(v, state) ==
  [state EXCEPT !.calls = state.calls + 1, !.reported = IF v THEN "true" ELSE "false"]

\* The input's onChange: setApiKey and clearVerificationResult.  The input
\* is disabled while a verification is pending.
SetApiKey ==
  /\ ~verify.isVerifying
  /\ \E k \in BOOLEAN :
       verify' = [verify EXCEPT !.apiKey = k, !.verificationResult = "null"]
  /\ UNCHANGED <<sceneVars, recVars, replayVars, now, last, replayEnds, probe, place, mounted, setup>>

\* verifyWithGemini() up to the awaited fetch.  Nothing in the function
\* prevents a second call while one is pending; the button is disabled
\* while isVerifying, which is the guard here.
VerifyWithGemini ==
  /\ ~verify.isVerifying
  /\ verify.calls < MaxVerifications
  /\ IF ~verify.apiKey
     THEN /\ last' = Skipped("verifyWithGemini")
          /\ UNCHANGED verify
     ELSE IF ~sceneReady
     THEN /\ verify' = onVerify(FALSE, verify)
          /\ last' = Ran
     ELSE /\ verify' = [verify EXCEPT !.isVerifying = TRUE, !.verificationResult = "null"]
          /\ last' = Ran
  /\ UNCHANGED <<sceneVars, recVars, replayVars, now, replayEnds, probe, place, mounted, setup>>

\* Variant of the continuation without the NOT_VERIFIED exclusion.
HandleResponseIgnoresNot(r) ==
  /\ verify.isVerifying
  /\ LET failed == r.kind = "networkError" \/ ~r.json \/ ~r.ok
         result == toUpperCase(r.text)
         isVerified == includes(result, VERIFIED)
         done == [verify EXCEPT !.isVerifying = FALSE,
                                !.verificationResult =
                                   IF ~failed /\ isVerified THEN "success" ELSE "failed"]
     IN /\ verify' = onVerify(~failed /\ isVerified, done)
        /\ last' = IF failed THEN Caught ELSE Ran
  /\ UNCHANGED <<sceneVars, recVars, replayVars, now, replayEnds, probe, place, mounted, setup>>

\* Variant of the continuation without the catch block: an error leaves only
\* the finally block to run.
HandleResponseNoCatch(r) ==
  /\ verify.isVerifying
  /\ LET failed == r.kind = "networkError" \/ ~r.json \/ ~r.ok
         result == toUpperCase(r.text)
         isVerified == includes(result, VERIFIED) /\ ~includes(result, NOT_VERIFIED)
         done == [verify EXCEPT !.isVerifying = FALSE,
                                !.verificationResult =
                                   IF failed THEN verify.verificationResult
                                   ELSE IF isVerified THEN "success" ELSE "failed"]
     IN verify' = IF failed THEN done ELSE onVerify(isVerified, done)
  /\ last' = Ran
  /\ UNCHANGED <<sceneVars, recVars, replayVars, now, replayEnds, probe, place, mounted, setup>>

\* Variant of the continuation without the finally block.
HandleResponseNoFinally(r) ==
  /\ verify.isVerifying
  /\ LET failed == r.kind = "networkError" \/ ~r.json \/ ~r.ok
         result == toUpperCase(r.text)
         isVerified == includes(result, VERIFIED) /\ ~includes(result, NOT_VERIFIED)
         done == [verify EXCEPT !.verificationResult =
                                   IF ~failed /\ isVerified THEN "success" ELSE "failed"]
     IN /\ verify' = onVerify(~failed /\ isVerified, done)
        /\ last' = IF failed THEN Caught ELSE Ran
  /\ UNCHANGED <<sceneVars, recVars, replayVars, now, replayEnds, probe, place, mounted, setup>>

\* The continuation of verifyWithGemini after the awaited fetch settled with
\* r: a rejected fetch, a body that does not parse, or a non-OK status end in
\* the catch block; otherwise the text decides; finally clears isVerifying.
HandleResponse(r) ==
  /\ verify.isVerifying
  /\ LET failed == r.kind = "networkError" \/ ~r.json \/ ~r.ok
         result == toUpperCase(r.text)
         isVerified == includes(result, VERIFIED) /\ ~includes(result, NOT_VERIFIED)
         done == [verify EXCEPT !.isVerifying = FALSE,
                                !.verificationResult =
                                   IF ~failed /\ isVerified THEN "success" ELSE "failed"]
     IN /\ verify' = onVerify(~failed /\ isVerified, done)
        /\ last' = IF failed THEN Caught ELSE Ran
  /\ UNCHANGED <<sceneVars, recVars, replayVars, now, replayEnds, probe, place, mounted, setup>>

VerifyResponse == \E r \in Responses : HandleResponse(r)

\* Verification next to the recorder and the replay controls.
NextVerify ==
  \/ InitPhysics
  \/ StartRecording
  \/ TimerCallback
  \/ StopRecording
  \/ StartReplay
  \/ StopReplay
  \/ Animate
  \/ SetApiKey
  \/ VerifyWithGemini
  \/ VerifyResponse

SpecVerify == Init /\ [][NextVerify]_vars

\* ---------------------------------------------------- mount and unmount
\* Unmounting the component.  The effect callback calls initPhysics() and
\* returns nothing, so React has no cleanup to run: the function initPhysics
\* resolves to (isMounted = false, removeEventListener, removeRigidBody,
\* dispose) is dropped, and no other code clears the recording interval.
\* React detaches the DOM subtree and nulls mountRef.current, nothing more.
Unmount ==
  /\ mounted
  /\ mounted' = FALSE
  /\ UNCHANGED <<sceneVars, recVars, replayVars, now, last, replayEnds, probe, place, verify, setup>>

\* isMounted stays true once the scene runs, so animate keeps rescheduling itself.
AnimationLoopRunning == sceneReady

\* The pointer listeners added to renderer.domElement are never removed.
ListenersAttached == sceneReady

\* While mounted everything can happen; afterwards the buttons and the canvas
\* are out of the document, but requestAnimationFrame and setInterval
\* callbacks still run and time still passes.  A state update queued for the
\* unmounted component is dropped by React.
NextLife ==
  \/ mounted /\ Next
  \/ Unmount
  \/ ~mounted /\ AnimationLoopRunning /\ Animate
  \/ ~mounted /\ TimerCallback
  \/ ~mounted /\ ClockAdvance

SpecLife == Init /\ [][NextLife]_vars

\* --------------------------------------------------- effect and initPhysics
\* The effect with its initializedRef check, the asynchronous initPhysics it
\* starts, and both ways that call can end.  setup.calls counts initPhysics
\* calls, setup.pending those still awaiting RAPIER.init(), setup.worlds the
\* RAPIER.World objects created (each with a renderer), setup.loops the
\* animate loops started, setup.failed whether RAPIER.init() has rejected.
InitSetup ==
  /\ InitMain
  /\ probe = NoProbe
  /\ place = PlaceIdle
  /\ mounted = TRUE
  /\ verify = VerifyIdle
  /\ setup = [initializedRef |-> FALSE, pending |-> 0, calls |-> 0, worlds |-> 0,
              loops |-> 0, failed |-> FALSE]

\* Variant of the effect without the initializedRef check.
RunEffectUnguarded ==
  /\ mounted
  /\ setup' = [setup EXCEPT !.initializedRef = TRUE, !.pending = @ + 1, !.calls = @ + 1]
  /\ last' = Ran
  /\ UNCHANGED <<sceneVars, recVars, replayVars, now, replayEnds, probe, place, mounted, verify>>

\* The effect callback: it runs after mount and again whenever the onVerify
\* prop is a new function, which is every render of App.  No cleanup is
\* returned, so nothing ever clears initializedRef.
RunEffect ==
  /\ mounted
  /\ IF setup.initializedRef
     THEN /\ last' = Skipped("useEffect")
          /\ UNCHANGED setup
     ELSE /\ setup' = [setup EXCEPT !.initializedRef = TRUE, !.pending = @ + 1, !.calls = @ + 1]
          /\ last' = Ran
  /\ UNCHANGED <<sceneVars, recVars, replayVars, now, replayEnds, probe, place, mounted, verify>>

\* RAPIER.init() resolved: without the mount node initPhysics returns;
\* otherwise it creates world, renderer, arm, objects and listeners and starts
\* animate.  Nothing here depends on a scene already existing.
InitPhysicsResolved ==
  /\ setup.pending > 0
  /\ IF ~mounted
     THEN /\ setup' = [setup EXCEPT !.pending = @ - 1]
          /\ last' = Skipped("initPhysics")
          /\ UNCHANGED <<sceneVars, replayVars, replayEnds>>
     ELSE /\ setup' = [setup EXCEPT !.pending = @ - 1, !.worlds = @ + 1, !.loops = @ + 1]
          /\ sceneReady' = TRUE
          /\ isDragging' = FALSE
          /\ \E pl \in Placements :
               LET spawned == [i \in 1..NumObjects |-> SpawnPose(pl[i])]
               IN AnimateFrom(spawned, spawned,
                              Vec3(0, ArmStartY, 0), Vec3(0, ArmStartY, 0))
  /\ UNCHANGED <<recVars, now, probe, place, mounted, verify>>

\* RAPIER.init() rejected: the promise initPhysics returned rejects, nobody
\* awaits it, and initializedRef stays set.
InitPhysicsRejected ==
  /\ setup.pending > 0
  /\ setup' = [setup EXCEPT !.pending = @ - 1, !.failed = TRUE]
  /\ last' = Skipped("initPhysics")
  /\ UNCHANGED <<sceneVars, recVars, replayVars, now, replayEnds, probe, place, mounted, verify>>

NextSetup ==
  \/ RunEffect
  \/ InitPhysicsResolved
  \/ InitPhysicsRejected
  \/ Unmount
  \/ mounted /\ StartRecording
  \/ mounted /\ StopRecording
  \/ TimerCallback
  \/ setup.loops > 0 /\ Animate
  \/ mounted /\ OnPointerDown

SpecSetup == InitSetup /\ [][NextSetup]_vars

\* ------------------------------------------------ a recording against time
\* One recording of RunFrames * 100 ms with an exact timer: startRecording at
\* time 0 on a ready scene, the interval callback due every FrameInterval
\* after that (callback number n is due at n * FrameInterval, the first one a
\* full period after the start), stopRecording when the time is up.  Time
\* does not pass a due callback; at the stop time the last callback and
\* stopRecording are both due, in either order.
RunFrames == 10

TimedStartRecording ==
  /\ sceneReady
  /\ now = 0
  /\ liveTimers = 0
  /\ ~isReplaying
  /\ StartRecording

TimedTimerCallback ==
  /\ liveTimers > 0
  /\ isRecordingRef
  /\ now = (frameCount + 1) * FrameInterval
  /\ recordFixedFrame
  /\ last' = Ran
  /\ UNCHANGED <<sceneVars, replayVars, isRecording, hasRecording, isRecordingRef,
                 intervalRef, liveTimers, now, replayEnds, auxVars>>

TimedClockAdvance ==
  /\ isRecordingRef
  /\ now < RunFrames * FrameInterval
  /\ now < (frameCount + 1) * FrameInterval
  /\ now' = now + FrameInterval \div 2
  /\ UNCHANGED <<sceneVars, recVars, replayVars, last, replayEnds, auxVars>>

TimedStopRecording ==
  /\ isRecordingRef
  /\ now = RunFrames * FrameInterval
  /\ StopRecording

NextTimed ==
  \/ InitPhysics
  \/ TimedStartRecording
  \/ TimedTimerCallback
  \/ TimedClockAdvance
  \/ TimedStopRecording
  \/ OnPointerDown
  \/ OnPointerUp

SpecTimed == Init /\ [][NextTimed]_vars

\* --------------------------------------------------- a replay against time
\* One replay with a running clock and a running animation loop: startReplay
\* at time 0, performance.now() advancing while the replay plays until it is
\* past the last frame's timestamp, animate called again and again, React
\* rendering what is queued.  The Stop Replay button is never pressed.
TimedStartReplay ==
  /\ now = 0
  /\ StartReplay

TimedReplayClock ==
  /\ isReplayingRef
  /\ Len(buffer) > 0
  /\ now - replayStartTime <= buffer[Len(buffer)].timestamp
  /\ now' = now + FrameInterval \div 2
  /\ last' = Ran
  /\ UNCHANGED <<sceneVars, recVars, replayVars, replayEnds, auxVars>>

NextReplayRun ==
  \/ InitPhysics
  \/ StartRecording
  \/ StopRecording
  \/ TimerCallback
  \/ TimedStartReplay
  \/ Render
  \/ Animate
  \/ OnPointerDown
  \/ TimedReplayClock

\* requestAnimationFrame re-arms animate in every call, the clock runs, and
\* React renders every queued update.
SpecReplayRun ==
  /\ Init
  /\ [][NextReplayRun]_vars
  /\ WF_vars(Animate)
  /\ WF_vars(TimedReplayClock)
  /\ WF_vars(Render)

\* ------------------------------------------------ recording during the fall
\* The objects are created at height 2.5 and fall; the first world.step()
\* calls leave them in the air.  Here initPhysics ends with the objects still
\* falling, at one of FallHeights; a later live tick brings them to rest.
FallHeights == {2400, 1200}

InitPhysicsFalling ==
  /\ ~sceneReady
  /\ sceneReady' = TRUE
  /\ isDragging' = FALSE
  /\ \E pl \in Placements, h \in FallHeights :
       LET falling == [i \in 1..NumObjects |->
                         [position |-> Vec3(pl[i].x, h, pl[i].z), rotation |-> IdentityQuat]]
       IN /\ bodies' = falling
          /\ meshes' = SyncMeshes(falling)
  /\ armPos' = Vec3(0, ArmStartY, 0)
  /\ armBody' = Vec3(0, ArmStartY, 0)
  /\ last' = Tick(TRUE, TRUE, FALSE, FALSE)
  /\ UNCHANGED <<recVars, replayVars, now, replayEnds, auxVars>>

NextFall ==
  \/ InitPhysicsFalling
  \/ StartRecording
  \/ StopRecording
  \/ TimerCallback
  \/ StartReplay
  \/ Render
  \/ Animate
  \/ OnPointerDown
  \/ ClockAdvance

SpecFall == Init /\ [][NextFall]_vars

\* ------------------------------------------------- placement loop, alone
\* The for / do-while loops of initPhysics one sampling attempt at a time.
\* place.used keeps, per placed object, the attempts its loop consumed.
MaxAttempts == 100

\* Outcomes of the two Math.random() draws of one attempt: a point too close
\* to the arm and three corners of the play area -1.75 .. 1.75.
PlaceSamples == SamplePoints \cup {<<1750, 1750>>, <<-1750, -1750>>, <<-1750, 1750>>}

InitPlace ==
  /\ InitMain
  /\ probe = NoProbe
  /\ place = [phase |-> "placing", occupiedPositions |-> <<>>, attempts |-> 0, used |-> <<>>]
  /\ mounted = TRUE
  /\ verify = VerifyIdle
  /\ setup = SetupIdle

\* Variant of the sampling loop without attempts++.
PlaceAttemptNoCount ==
  /\ place.phase = "placing"
  /\ \E s \in PlaceSamples :
       LET attempts == place.attempts
           valid == isPositionValid(s[1], s[2], ObjectRadius, place.occupiedPositions)
       IN IF ~valid /\ attempts < MaxAttempts
          THEN place' = [place EXCEPT !.attempts = attempts]
          ELSE LET pos == IF attempts >= MaxAttempts
                          THEN GridFallback(Len(place.occupiedPositions))
                          ELSE [x |-> s[1], z |-> s[2], radius |-> ObjectRadius]
                   occupied == Append(place.occupiedPositions, pos)
               IN place' = [phase |-> IF Len(occupied) < NumObjects THEN "placing" ELSE "done",
                            occupiedPositions |-> occupied,
                            attempts |-> 0,
                            used |-> Append(place.used, attempts)]
  /\ UNCHANGED <<sceneVars, recVars, replayVars, now, last, replayEnds, probe, mounted, verify, setup>>

\* One pass of the do-while body and its condition; when the loop exits, the
\* grid fallback if attempts >= maxAttempts, the push to occupiedPositions and
\* the next iteration of the for loop (attempts = 0) or its end.
PlaceAttempt ==
  /\ place.phase = "placing"
  /\ \E s \in PlaceSamples :
       LET attempts == place.attempts + 1
           valid == isPositionValid(s[1], s[2], ObjectRadius, place.occupiedPositions)
       IN IF ~valid /\ attempts < MaxAttempts
          THEN place' = [place EXCEPT !.attempts = attempts]
          ELSE LET pos == IF attempts >= MaxAttempts
                          THEN GridFallback(Len(place.occupiedPositions))
                          ELSE [x |-> s[1], z |-> s[2], radius |-> ObjectRadius]
                   occupied == Append(place.occupiedPositions, pos)
               IN place' = [phase |-> IF Len(occupied) < NumObjects THEN "placing" ELSE "done",
                            occupiedPositions |-> occupied,
                            attempts |-> 0,
                            used |-> Append(place.used, attempts)]
  /\ UNCHANGED <<sceneVars, recVars, replayVars, now, last, replayEnds, probe, mounted, verify, setup>>

NextPlace == PlaceAttempt

\* The loops are straight-line synchronous code: each pass is followed by the next.
SpecPlace == InitPlace /\ [][NextPlace]_vars /\ WF_vars(PlaceAttempt)

\* ------------------------------------------- coordinate normaliser, alone
\* The normaliser applied to a grid of simulation points that reaches beyond
\* the table: normalizeCoordinates, then denormalizeCoordinates of its result.
CoordGrid == {k * 250 : k \in -MaxGrid..MaxGrid}

InitCoord ==
  /\ InitMain
  /\ probe \in {[NoProbe EXCEPT !.stage = "in", !.x = x, !.z = z] :
                  x \in CoordGrid, z \in CoordGrid}
  /\ place = PlaceIdle
  /\ mounted = TRUE
  /\ verify = VerifyIdle
  /\ setup = SetupIdle

ProbeNormalize ==
  /\ probe.stage = "in"
  /\ LET n == normalizeCoordinates(probe.x, ROBOT_ARM_Y, probe.z)
     IN probe' = [probe EXCEPT !.stage = "normalized", !.px = n.x, !.py = n.y]
  /\ UNCHANGED <<sceneVars, recVars, replayVars, now, last, replayEnds, place, mounted, verify, setup>>

ProbeDenormalize ==
  /\ probe.stage = "normalized"
  /\ LET d == denormalizeCoordinates(probe.px, probe.py)
     IN probe' = [probe EXCEPT !.stage = "back", !.bx = d.x, !.bz = d.z]
  /\ UNCHANGED <<sceneVars, recVars, replayVars, now, last, replayEnds, place, mounted, verify, setup>>

NextCoord ==
  \/ ProbeNormalize
  \/ ProbeDenormalize

SpecCoord == InitCoord /\ [][NextCoord]_vars

\* denormalizeCoordinates applied to a grid of physical points that reaches
\* beyond the physical rectangle, then normalizeCoordinates of its result.
\* The grid steps are multiples of the physical length of one simulation
\* unit step, so the divisions of both maps are exact on it.
PhysGrid ==
  {[px |-> (PhysXMin + PhysXMax) \div 2 + k * 250, py |-> m * 500] :
     k \in -MaxGrid..MaxGrid, m \in -MaxGrid..MaxGrid}

InitInverse ==
  /\ InitMain
  /\ probe \in {[NoProbe EXCEPT !.stage = "physical", !.px = g.px, !.py = g.py] :
                  g \in PhysGrid}
  /\ place = PlaceIdle
  /\ mounted = TRUE
  /\ verify = VerifyIdle
  /\ setup = SetupIdle

ProbeDenormalizePhysical ==
  /\ probe.stage = "physical"
  /\ LET d == denormalizeCoordinates(probe.px, probe.py)
     IN probe' = [probe EXCEPT !.stage = "denormalized", !.bx = d.x, !.bz = d.z]
  /\ UNCHANGED <<sceneVars, recVars, replayVars, now, last, replayEnds, place, mounted, verify, setup>>

ProbeRenormalize ==
  /\ probe.stage = "denormalized"
  /\ LET n == normalizeCoordinates(probe.bx, ROBOT_ARM_Y, probe.bz)
     IN probe' = [probe EXCEPT !.stage = "renormalized", !.rx = n.x, !.ry = n.y]
  /\ UNCHANGED <<sceneVars, recVars, replayVars, now, last, replayEnds, place, mounted, verify, setup>>

NextInverse ==
  \/ ProbeDenormalizePhysical
  \/ ProbeRenormalize

SpecInverse == InitInverse /\ [][NextInverse]_vars

\* ================================================================ claims
InRect(p) ==
  /\ p.x >= PhysXMin /\ p.x <= PhysXMax
  /\ p.y >= PhysYMin /\ p.y <= PhysYMax
  /\ p.z = PhysZFixed

\* C1: the k-th frame of the trajectory buffer (k from 0) has timestamp
\* exactly k * 100 ms, after any interleaving of startRecording, timer
\* callbacks, ticks and stopRecording.
C1_TimestampsExact ==
  \A k \in 1..Len(buffer) : buffer[k].timestamp = (k - 1) * FrameInterval

\* A second recording (one was kept before) that has reached three frames.
C1_Witness ==
  /\ isRecordingRef
  /\ hasRecording
  /\ Len(buffer) = 3

\* C2: startRecording called while replay is active changes neither the
\* buffer, frameIndex, the recording flags, the replaying flags, hasRecording
\* nor the sampling timer.
C2_StartRecordingWhileReplayingNoOp ==
  [][(StartRecording /\ isReplayingRef) =>
       UNCHANGED <<buffer, frameCount, isRecording, isRecordingRef, isReplaying,
                   isReplayingRef, hasRecording, intervalRef, liveTimers>>]_vars

C2_Witness ==
  /\ isReplayingRef
  /\ last = Skipped("startRecording")
  /\ Len(buffer) > 0

\* C3: startReplay is rejected (the replayer stays Idle, replayStartTime is
\* unchanged) whenever the buffer is empty or recording is active; in every
\* other state it sets replayStartTime to the current time and is Playing.
C3_StartReplayGuard ==
  [][StartReplay =>
       IF Len(buffer) = 0 \/ isRecordingRef
       THEN /\ ~isReplayingRef /\ ~isReplayingRef'
            /\ UNCHANGED <<isReplaying, replayStartTime>>
       ELSE /\ replayStartTime' = now
            /\ isReplayingRef'
            /\ isReplaying']_vars

\* A startReplay rejected only because recording is active: the buffer holds
\* frames and an earlier recording was kept.
C3_Witness ==
  /\ last = Skipped("startReplay")
  /\ isRecordingRef
  /\ hasRecording
  /\ Len(buffer) > 0

\* C4: a tick while Playing imposes the first frame of the buffer (lowest
\* index) whose timestamp is >= elapsed = now - replayStartTime.
C4_FirstFrameAtOrAfterElapsed ==
  [][(Animate /\ isReplayingRef) =>
       LET elapsed == now - replayStartTime
       IN \A k \in 1..Len(buffer) :
            (/\ buffer[k].timestamp >= elapsed
             /\ \A j \in 1..(k - 1) : buffer[j].timestamp < elapsed)
            => /\ armPos' = ReplayedArm(buffer[k])
               /\ meshes' = [i \in 1..NumObjects |-> ReplayedPose(buffer[k].objects[i])]
               /\ last'.imposed]_vars

\* Frames at 0, 100, 200 ms, elapsed 150 ms: the frame at 200 ms was imposed,
\* and it differs from the frame at 100 ms.
C4_Witness ==
  /\ isReplayingRef
  /\ Len(buffer) = 3
  /\ now - replayStartTime = 150
  /\ last = Tick(FALSE, FALSE, TRUE, FALSE)
  /\ armPos = ReplayedArm(buffer[3])
  /\ armPos # ReplayedArm(buffer[2])

\* C5: a replay tick that finds no frame with timestamp >= elapsed stops the
\* replay, and that happens once per replay: the ticks after it are live
\* ticks, which neither run the replay step nor stop the replay again.
C5_EndOfTrajectoryOnce ==
  [][/\ (Animate /\ isReplayingRef
           /\ \A k \in 1..Len(buffer) : buffer[k].timestamp < now - replayStartTime)
          => (~isReplayingRef' /\ last' = Tick(FALSE, FALSE, FALSE, TRUE)
              /\ replayEnds' = 1)
     /\ (Animate /\ ~isReplayingRef)
          => (~isReplayingRef' /\ last' = Tick(TRUE, TRUE, FALSE, FALSE)
              /\ replayEnds' = replayEnds /\ renderPending' = renderPending)]_vars

\* A live tick after the replay ended at the end of the trajectory.
C5_Witness ==
  /\ replayEnds = 1
  /\ ~isReplayingRef
  /\ last = Tick(TRUE, TRUE, FALSE, FALSE)

\* C6: a tick steps the physics world iff replay is not active at that tick;
\* it never both steps and imposes a replayed pose; a live tick syncs the
\* meshes from the poses the step produced.
C6_StepIffNotReplaying ==
  [][(Animate \/ InitPhysics) =>
       /\ last'.op = "tick"
       /\ last'.stepped <=> ~isReplayingRef
       /\ last'.synced <=> last'.stepped
       /\ ~(last'.stepped /\ last'.imposed)
       /\ last'.synced => (bodies' \in StepOutcomes(IF sceneReady THEN bodies ELSE bodies')
                            /\ meshes' = SyncMeshes(bodies'))]_vars

\* A replay tick that imposed a frame and did not step.
C6_Witness ==
  /\ isReplayingRef
  /\ last = Tick(FALSE, FALSE, TRUE, FALSE)
  /\ meshes = bodies

\* C7: while Playing, pointer-down and pointer-move do not move the
\* end-effector.
C7_PointerIgnoredWhilePlaying ==
  [][(isReplayingRef /\ (OnPointerDown \/ OnPointerMove)) =>
       (armPos' = armPos /\ armBody' = armBody)]_vars

\* C8: for every simulation point inside [-3,3] x [-3,3],
\* denormalizeCoordinates(normalizeCoordinates(x, ., z)) is (x, z) again.
C8_RoundTripInsideTable ==
  (/\ probe.stage = "back"
   /\ probe.x >= -SimHalf /\ probe.x <= SimHalf
   /\ probe.z >= -SimHalf /\ probe.z <= SimHalf)
  => (probe.bx = probe.x /\ probe.bz = probe.z)

\* A round trip of a corner of the table.
C8_Witness ==
  /\ probe.stage = "back"
  /\ probe.x = -SimHalf
  /\ probe.z = SimHalf
  /\ probe.bx = -SimHalf

\* C9: every pose of every recorded frame has x in [0.20, 0.40], y in
\* [-0.20, 0.20] and z = 0.76, wherever the arm and the objects were.
C9_FramesInsidePhysicalRect ==
  \A k \in 1..Len(buffer) :
    /\ InRect(buffer[k].robotArm)
    /\ \A i \in DOMAIN buffer[k].objects : InRect(buffer[k].objects[i].position)

\* A frame recorded with the arm and the first object beyond the table.
C9_Witness ==
  /\ Len(buffer) > 0
  /\ armPos.x > SimHalf
  /\ meshes[1].position.z < -SimHalf
  /\ buffer[Len(buffer)].robotArm.x = PhysXMax
  /\ buffer[Len(buffer)].objects[1].position.y = PhysYMin

\* C10: an accepted startRecording leaves the buffer empty and frameIndex 0,
\* whatever the buffer held; the next frame appended has timestamp 0.
C10_StartRecordingResets ==
  [][/\ (StartRecording /\ ~isReplaying) => (buffer' = <<>> /\ frameCount' = 0)
     /\ (TimerCallback /\ buffer = <<>> /\ buffer' # <<>>)
          => buffer'[1].timestamp = 0]_vars

\* The first frame of a recording started over a kept recording.
C10_Witness ==
  /\ isRecordingRef
  /\ hasRecording
  /\ Len(buffer) = 1
  /\ frameCount = 1

\* C11: stopRecording leaves hasRecording true exactly when the buffer holds
\* at least one frame; with an empty buffer it is false afterwards, whatever
\* an earlier recording had set.
C11_StopRecordingSetsHasRecording ==
  [][StopRecording =>
       /\ hasRecording' = (Len(buffer') > 0)
       /\ (Len(buffer) = 0 => ~hasRecording')
       /\ (Len(buffer) >= 1 => hasRecording')]_vars

\* An empty recording was stopped after an earlier one had been replayed
\* (the clock only moves during a replay, which needs hasRecording).
C11_Witness ==
  /\ sceneReady
  /\ now > 0
  /\ ~isReplaying
  /\ ~isRecordingRef
  /\ buffer = <<>>
  /\ ~hasRecording
  /\ last = Ran

\* C12: once the recorder is stopped the trajectory buffer is frozen: no step
\* (timer callback, also of a leaked interval, tick, replay, export, pointer
\* event) changes it until a startRecording call is accepted.
C12_BufferFrozenAfterStop ==
  [][(~isRecordingRef /\ ~(StartRecording /\ ~isReplaying)) => buffer' = buffer]_vars

\* A leaked interval fired after stopRecording and found the recorder stopped.
C12_Witness ==
  /\ ~isRecordingRef
  /\ hasRecording
  /\ Len(buffer) >= 1
  /\ liveTimers > 0
  /\ last = Skipped("timer")

\* C13: when the scene is set up, the clearance disks (radius 0.9) of any two
\* objects are disjoint and no object's disk meets the end-effector's disk
\* (radius 0.45 at the origin), grid-fallback objects included.
C13_ClearanceDisksDisjoint ==
  place.phase = "done" =>
    /\ \A i, j \in 1..Len(place.occupiedPositions) :
         i < j =>
           LET a == place.occupiedPositions[i]
               b == place.occupiedPositions[j]
           IN Sq(a.x - b.x) + Sq(a.z - b.z) >= Sq(a.radius + b.radius)
    /\ \A i \in 1..Len(place.occupiedPositions) :
         LET a == place.occupiedPositions[i]
         IN Sq(a.x) + Sq(a.z) >= Sq(a.radius + RobotArmRadius)

\* C14: placement terminates with exactly three objects; no object consumes
\* more than 100 attempts, and an object whose attempts are exhausted is put on
\* its grid cell instead of failing.
C14_PlacementTerminates ==
  /\ <>(place.phase = "done")
  /\ [](place.attempts < MaxAttempts)
  /\ [](\A k \in 1..Len(place.used) :
          /\ place.used[k] >= 1
          /\ place.used[k] <= MaxAttempts
          /\ place.used[k] = MaxAttempts => place.occupiedPositions[k] = GridFallback(k - 1))
  /\ [](place.phase = "done" <=> Len(place.occupiedPositions) = NumObjects)
  /\ [](Len(place.occupiedPositions) <= NumObjects)

\* Setup ended after every object exhausted its attempts.
C14_Witness ==
  /\ place.phase = "done"
  /\ place.used = <<MaxAttempts, MaxAttempts, MaxAttempts>>
  /\ Len(place.occupiedPositions) = NumObjects

\* C15: after unmount the physics bodies are removed, no sampling interval is
\* live, the input listeners are detached and the animation loop is stopped.
C15_TeardownReleasesEverything ==
  ~mounted =>
    /\ bodies = <<>>
    /\ liveTimers = 0
    /\ ~ListenersAttached
    /\ ~AnimationLoopRunning

\* The responses verifyWithGemini accepts: fetched, parsed, status OK, and
\* the text, letter case ignored, has VERIFIED and has no NOT_VERIFIED.
AcceptedIgnoringCase(r) ==
  /\ r.kind = "http" /\ r.json /\ r.ok
  /\ includes(toUpperCase(r.text), VERIFIED)
  /\ ~includes(toUpperCase(r.text), NOT_VERIFIED)

\* The same with the text taken literally.
AcceptedLiterally(r) ==
  /\ r.kind = "http" /\ r.json /\ r.ok
  /\ includes(r.text, VERIFIED)
  /\ ~includes(r.text, NOT_VERIFIED)

\* C16 as stated: a completed attempt reports success exactly when the
\* response is OK and its text contains "VERIFIED" and not "NOT_VERIFIED".
C16_SuccessIffLiteralText ==
  [][(verify.isVerifying /\ verify' # verify) =>
       \A r \in Responses :
         HandleResponse(r) =>
           ((verify'.verificationResult = "success" /\ verify'.reported = "true")
              <=> AcceptedLiterally(r))]_vars

\* C16 amended: a completed attempt reports success (verificationResult
\* 'success', onVerify(true)) exactly when the response is OK and its text,
\* letter case ignored, contains "VERIFIED" and not "NOT_VERIFIED"; every
\* other attempt that passed the API-key check reports failure with
\* onVerify(false), also the one that finds no renderer.
C16_SuccessIffTextIgnoringCase ==
  [][/\ (verify.isVerifying /\ verify' # verify) =>
          \A r \in Responses :
            HandleResponse(r) =>
              /\ verify'.calls = verify.calls + 1
              /\ AcceptedIgnoringCase(r) =>
                   (verify'.verificationResult = "success" /\ verify'.reported = "true")
              /\ ~AcceptedIgnoringCase(r) =>
                   (verify'.verificationResult = "failed" /\ verify'.reported = "false")
     /\ (VerifyWithGemini /\ verify.apiKey /\ ~sceneReady) =>
          (verify'.calls = verify.calls + 1 /\ verify'.reported = "false")]_vars

\* A verification has succeeded.
C16_Witness ==
  /\ verify.verificationResult = "success"
  /\ verify.reported = "true"
  /\ verify.calls = 1
  /\ ~verify.isVerifying

\* Requests that fail: the fetch rejects, the status is not OK, the body does
\* not parse, or the parsed body has no candidate text.
FailedRequest(r) == r.kind = "networkError" \/ ~r.ok \/ ~r.json \/ r.text = <<>>

\* C17: a failed request is surfaced as a failed verification
\* (verificationResult 'failed', onVerify(false)), isVerifying returns to
\* false, and recorder, replayer, buffer and scene are left as they were.
C17_RequestFailureSurfaced ==
  [][(verify.isVerifying /\ verify' # verify) =>
       \A r \in Responses :
         (HandleResponse(r) /\ FailedRequest(r)) =>
           /\ verify'.verificationResult = "failed"
           /\ verify'.reported = "false"
           /\ verify'.calls = verify.calls + 1
           /\ ~verify'.isVerifying
           /\ UNCHANGED <<sceneVars, recVars, replayVars, now>>]_vars

\* The catch block ran while a recording with frames was in progress.
C17_Witness ==
  /\ last = Caught
  /\ verify.verificationResult = "failed"
  /\ verify.reported = "false"
  /\ ~verify.isVerifying
  /\ isRecordingRef
  /\ Len(buffer) >= 1

\* C18: an export writes the header line and then exactly one line per frame,
\* in buffer order, every line with 4 + 7 * N fields (N = 3 objects); without
\* a recording the export is refused; in both cases buffer, recorder and
\* replayer are left as they were.
C18_ExportOneRowPerFrame ==
  [][((last'.op = "export" \/ last' = Skipped("saveRecordingAsCSV")) /\ SaveRecordingAsCSV) =>
       /\ UNCHANGED <<sceneVars, recVars, replayVars>>
       /\ (~hasRecording \/ Len(buffer) = 0) => last'.op = "skipped"
       /\ (hasRecording /\ Len(buffer) > 0) =>
            /\ last'.op = "export"
            /\ Len(last'.csv) = 1 + Len(buffer)
            /\ \A k \in 1..Len(last'.csv) : Len(last'.csv[k]) = 4 + 7 * NumObjects
            /\ last'.csv[1][1] = "Timestamp"
            /\ \A k \in 1..Len(buffer) :
                 /\ last'.csv[k + 1][1] = buffer[k].timestamp * 1000
                 /\ last'.csv[k + 1][11] = buffer[k].objects[1].rotation.w * 1000]_vars

\* A recording of two frames was exported: header and two rows.
C18_Witness ==
  /\ last.op = "export"
  /\ Len(last.csv) = 3
  /\ Len(buffer) = 2
  /\ last.csv[3][1] = 100000

\* C19: a recording started, left running for 1.0 s with the 100 ms timer and
\* then stopped holds exactly 10 frames, stamped 0, 100, ..., 900.
C19_TenFramesInOneSecond ==
  (~isRecordingRef /\ now = RunFrames * FrameInterval) =>
    /\ Len(buffer) = RunFrames
    /\ \A k \in 1..Len(buffer) : buffer[k].timestamp = (k - 1) * FrameInterval

\* C20: every recorded frame holds exactly one pose per scene object, three
\* in all, in creation order (Object1 red, Object2 green, Object3 blue): the
\* pose at index i of a new frame is the normalised pose of object i.
C20_FramesFollowCreationOrder ==
  /\ [](/\ Len(colors) = NumObjects
        /\ colors = <<"red", "green", "blue">>
        /\ \A k \in 1..Len(buffer) : Len(buffer[k].objects) = NumObjects)
  /\ [][Len(buffer') = Len(buffer) + 1 =>
          /\ Len(meshes) = NumObjects
          /\ \A i \in 1..NumObjects :
               LET recorded == buffer'[Len(buffer')].objects[i]
                   n == normalizeCoordinates(meshes[i].position.x, meshes[i].position.y,
                                             meshes[i].position.z)
               IN /\ recorded.position.x = n.x
                  /\ recorded.position.y = n.y
                  /\ recorded.rotation.w = meshes[i].rotation.w]_vars

\* Two frames were recorded, the second after the first object was knocked
\* away from its spawn cell.
C20_Witness ==
  /\ Len(buffer) = 2
  /\ buffer[1].objects[1].position # buffer[2].objects[1].position
  /\ buffer[2].objects[2].position # buffer[2].objects[3].position
  /\ buffer[2].objects[1].position # buffer[2].objects[2].position

\* C21: a replay tick that finds a frame sets the visual transform and the
\* body pose of the end-effector and of every object to the denormalised
\* pose of that frame, so that after the tick each visual equals its body.
C21_ReplayImposesFrameOnMeshAndBody ==
  [][(last'.op = "tick" /\ last'.imposed /\ Animate) =>
       LET frame == buffer[FindFrame(buffer, now - replayStartTime)]
       IN /\ armPos' = ReplayedArm(frame)
          /\ armBody' = ReplayedArm(frame)
          /\ Len(meshes') = NumObjects
          /\ \A i \in 1..NumObjects :
               /\ meshes'[i] = ReplayedPose(frame.objects[i])
               /\ bodies'[i] = ReplayedPose(frame.objects[i])
          /\ meshes' = bodies'
          /\ armPos' = armBody']_vars

\* A replay tick imposed a frame in which the first object lies tilted at
\* the edge of the table and the end-effector has been dragged.
C21_Witness ==
  /\ last.op = "tick"
  /\ last.imposed
  /\ meshes = bodies
  /\ meshes[1].rotation = TiltedQuat
  /\ armPos = armBody
  /\ armPos.y = ROBOT_ARM_Y
  /\ armPos.x # 0

\* C22: during a recording the buffer only grows at its end: every step other
\* than the start of a new recording keeps the frames it holds, in place,
\* and adds at most one after them; while the replayer is playing no step
\* changes the buffer at all.
C22_AppendOnlyThenReadOnly ==
  [][/\ (isRecordingRef /\ ~(StartRecording /\ ~isReplaying)) =>
          \/ buffer' = buffer
          \/ /\ Len(buffer') = Len(buffer) + 1
             /\ SubSeq(buffer', 1, Len(buffer)) = buffer
     /\ (isReplayingRef \/ isReplaying) => buffer' = buffer]_vars

\* Two frames were appended during one recording.
C22_Witness ==
  /\ isRecordingRef
  /\ ~isReplayingRef
  /\ Len(buffer) = 2
  /\ buffer[1].timestamp = 0
  /\ buffer[2].timestamp = FrameInterval
  /\ last = Ran

\* C23: stopReplay leaves the replayer idle (state flag and ref clear) from
\* any state and at any elapsed time, changes neither the buffer nor
\* hasRecording, and a stopReplay on an idle replayer changes nothing.
C23_StopReplayToIdle ==
  [][StopReplay =>
       /\ ~isReplaying' /\ ~isReplayingRef'
       /\ UNCHANGED <<buffer, hasRecording, sceneVars, recVars>>
       /\ (~isReplaying /\ ~isReplayingRef /\ ~renderPending) =>
            UNCHANGED <<sceneVars, recVars, replayVars, now, replayEnds>>]_vars

\* The replay was stopped by the button before its last frame was due.
C23_Witness ==
  /\ ~isReplaying
  /\ ~isReplayingRef
  /\ hasRecording
  /\ Len(buffer) >= 2
  /\ replayEnds = 0
  /\ now > replayStartTime
  /\ now - replayStartTime <= buffer[Len(buffer)].timestamp
  /\ last = Ran

\* C24: frames are appended by the interval callback only.  A callback that
\* runs while recording on an initialised scene adds exactly one frame; no
\* other step, in particular no animation tick, adds any; so the buffer
\* length counts those callbacks (and equals frameCountRef), whatever the
\* number of ticks.
C24_FramesOnlyFromTimer ==
  [][/\ last'.op = "tick" => buffer' = buffer
     /\ (isRecordingRef /\ sceneReady /\ TimerCallback) =>
          Len(buffer') = Len(buffer) + 1
     /\ Len(buffer') > Len(buffer) =>
          (isRecordingRef /\ sceneReady /\ TimerCallback)
     /\ Len(buffer') = frameCount']_vars

\* A live tick ran during a recording that holds two frames.
C24_Witness ==
  /\ isRecordingRef
  /\ Len(buffer) = 2
  /\ frameCount = 2
  /\ last.op = "tick"
  /\ last.stepped

\* C25: initPhysics is called at most once per component instance, so at
\* most one world (with its renderer) and one animation loop ever exist,
\* however often the effect re-runs; after a failed RAPIER.init() there is no
\* further call and no world.
C25_InitializedAtMostOnce ==
  /\ setup.calls <= 1
  /\ setup.worlds <= 1
  /\ setup.loops <= 1
  /\ setup.failed => (setup.worlds = 0 /\ setup.pending = 0 /\ ~sceneReady)

\* The effect re-ran on an initialised scene and returned at the
\* initializedRef check.
C25_Witness ==
  /\ last = Skipped("useEffect")
  /\ setup.worlds = 1
  /\ setup.calls = 1
  /\ sceneReady

\* C26: denormalizeCoordinates does not clamp: a physical x below 0.20 or
\* above 0.40 gives a simulation x below -3 or above 3, a physical y outside
\* [-0.20, 0.20] gives a simulation z outside [-3, 3]; and for a physical
\* point inside the rectangle normalizeCoordinates(denormalizeCoordinates(p))
\* is p again.
C26_DenormalizeIsUnclampedInverse ==
  /\ probe.stage \in {"denormalized", "renormalized"} =>
       /\ probe.px < PhysXMin => probe.bx < -SimHalf
       /\ probe.px > PhysXMax => probe.bx > SimHalf
       /\ probe.py < PhysYMin => probe.bz < -SimHalf
       /\ probe.py > PhysYMax => probe.bz > SimHalf
  /\ (/\ probe.stage = "renormalized"
      /\ probe.px >= PhysXMin /\ probe.px <= PhysXMax
      /\ probe.py >= PhysYMin /\ probe.py <= PhysYMax)
     => (probe.rx = probe.px /\ probe.ry = probe.py)

\* A round trip of a physical point inside the rectangle, off its centre.
C26_Witness ==
  /\ probe.stage = "renormalized"
  /\ probe.px = (PhysXMin + PhysXMax) \div 2 + 250
  /\ probe.py = -1500
  /\ probe.bx = 250
  /\ probe.bz = -750
  /\ probe.rx = probe.px
  /\ probe.ry = probe.py

\* C27: recording and replay are never both active, neither as the React
\* state flags isRecording / isReplaying nor as the ref flags
\* isRecordingRef / isReplayingRef.
C27_NeverRecordingAndReplaying ==
  /\ ~(isRecording /\ isReplaying)
  /\ ~(isRecordingRef /\ isReplayingRef)

\* startRecording was called during a replay and returned at its check.
C27_Witness ==
  /\ isReplaying
  /\ isReplayingRef
  /\ ~isRecording
  /\ ~isRecordingRef
  /\ last = Skipped("startRecording")

\* C28: whenever recording is not active, hasRecording holds exactly when
\* the buffer is non-empty; and a replay never plays over an empty buffer.
C28_HasRecordingIffFrames ==
  /\ (~isRecording /\ ~isRecordingRef) => (hasRecording <=> Len(buffer) > 0)
  /\ (isReplaying \/ isReplayingRef) => Len(buffer) > 0

\* A replay tick imposing a frame of a one-frame recording.
C28_Witness ==
  /\ isReplayingRef
  /\ ~isRecording
  /\ hasRecording
  /\ Len(buffer) = 1
  /\ last.op = "tick"
  /\ last.imposed

\* C29: a replay that has started ends by itself: with ticks occurring and
\* the clock advancing, a tick eventually finds the clock past the last
\* frame and returns the replayer to Idle, no stopReplay by the user needed.
C29_ReplayEventuallyEnds ==
  isReplayingRef ~> (~isReplayingRef /\ last.op = "tick" /\ last.ended)

\* The tick that ended the replay of a three-frame recording.
C29_Witness ==
  /\ ~isReplayingRef
  /\ last.op = "tick"
  /\ last.ended
  /\ Len(buffer) = MaxFrames
  /\ now - replayStartTime > buffer[Len(buffer)].timestamp

\* C30: at most one interval created by startRecording is live at any time,
\* and none is live while recording is inactive, also after a startRecording
\* that was called while a recording was already active.
C30_AtMostOneLiveTimer ==
  /\ liveTimers <= 1
  /\ (~isRecordingRef /\ ~isRecording) => liveTimers = 0

\* C31: once one object is placed, every sample of the play area fails the
\* pairwise check, so the second and the third object use up their attempts
\* and are put on the grid cells (0, -1.2) and (-1.2, 0).
C31_LaterObjectsOnGrid ==
  \A k \in 2..Len(place.occupiedPositions) :
    /\ place.used[k] = MaxAttempts
    /\ place.occupiedPositions[k] = GridFallback(k - 1)
    /\ k = 2 => (place.occupiedPositions[k].x = 0 /\ place.occupiedPositions[k].z = -GridSpacing)
    /\ k = 3 => (place.occupiedPositions[k].x = -GridSpacing /\ place.occupiedPositions[k].z = 0)

\* The first object took the first sample, a corner of the play area; the
\* other two ended on the grid.
C31_Witness ==
  /\ place.phase = "done"
  /\ place.used = <<1, MaxAttempts, MaxAttempts>>
  /\ place.occupiedPositions[1].x = 1750
  /\ place.occupiedPositions[1].z = 1750
  /\ place.occupiedPositions[3].x = -GridSpacing

\* C32: an interval callback that runs while recording before the scene is
\* initialised appends no frame and leaves the frame count as it is, so the
\* first frame of every buffer has timestamp 0.
C32_EarlyCallbackRecordsNothing ==
  [][/\ (~sceneReady /\ isRecordingRef /\ TimerCallback) =>
          (buffer' = buffer /\ frameCount' = frameCount)
     /\ Len(buffer') > 0 => buffer'[1].timestamp = 0]_vars

\* A callback of a recording started before initPhysics finished has run
\* and returned at the refs check.
C32_Witness ==
  /\ ~sceneReady
  /\ isRecordingRef
  /\ liveTimers > 0
  /\ last = Skipped("timer")
  /\ frameCount = 0
  /\ buffer = <<>>

\* C33: within one replay the index of the frame a tick imposes never
\* decreases: across every step that keeps the replay playing and is not a
\* startReplay call, the buffer is the same and the index that
\* replayFrame's lookup yields does not go down, nor back from "no frame".
C33_ReplayIndexNeverDecreases ==
  [][(/\ isReplayingRef
      /\ isReplayingRef'
      /\ ~StartReplay) =>
       LET idx == FindFrame(buffer, now - replayStartTime)
           idxNext == FindFrame(buffer', now' - replayStartTime')
       IN /\ buffer' = buffer
          /\ idx > 0 => (idxNext = 0 \/ idxNext >= idx)
          /\ idx = 0 => idxNext = 0]_vars

\* A tick at 100 ms into the replay of three frames imposed the second one.
C33_Witness ==
  /\ isReplayingRef
  /\ Len(buffer) = 3
  /\ now - replayStartTime = FrameInterval
  /\ FindFrame(buffer, now - replayStartTime) = 2
  /\ last = Tick(FALSE, FALSE, TRUE, FALSE)
  /\ armPos = ReplayedArm(buffer[2])

\* C34: the frame stores each object's quaternion with the y and z channels
\* exchanged, and replay exchanges them back: the quaternion replay derives
\* from a frame is the one the mesh had when the frame was captured, and a
\* replay tick imposes that quaternion on mesh and body.
C34_RotationSwapUndone ==
  [][/\ (isRecordingRef /\ sceneReady /\ TimerCallback) =>
          LET frame == buffer'[Len(buffer')]
          IN \A i \in 1..NumObjects :
               /\ frame.objects[i].rotation =
                    Quat(meshes[i].rotation.x, meshes[i].rotation.z,
                         meshes[i].rotation.y, meshes[i].rotation.w)
               /\ ReplayedPose(frame.objects[i]).rotation = meshes[i].rotation
     /\ (last'.op = "tick" /\ last'.imposed /\ Animate) =>
          LET frame == buffer[FindFrame(buffer, now - replayStartTime)]
          IN \A i \in 1..NumObjects :
               /\ meshes'[i].rotation.y = frame.objects[i].rotation.z
               /\ meshes'[i].rotation.z = frame.objects[i].rotation.y
               /\ bodies'[i].rotation = meshes'[i].rotation]_vars

\* A replay tick imposed a frame captured with the first object tilted: the
\* frame holds the exchanged channels, the mesh has the original ones again.
C34_Witness ==
  /\ last.op = "tick"
  /\ last.imposed
  /\ Len(buffer) = 1
  /\ buffer[1].objects[1].rotation = Quat(TiltedQuat.x, TiltedQuat.z, TiltedQuat.y, TiltedQuat.w)
  /\ buffer[1].objects[1].rotation # TiltedQuat
  /\ meshes[1].rotation = TiltedQuat
  /\ bodies[1].rotation = TiltedQuat

\* C35: a verifyWithGemini call that passes the API-key check calls onVerify
\* exactly once: at once when the renderer is missing, else not at the start
\* (which sets isVerifying) but once in the continuation, which clears
\* isVerifying whether the answer verified, did not, or an error was caught;
\* no other step calls onVerify.
C35_OnVerifyOncePerAttempt ==
  [][verify' # verify =>
       /\ (verify.apiKey /\ ~verify.isVerifying /\ VerifyWithGemini) =>
            IF sceneReady
            THEN verify'.isVerifying /\ verify'.calls = verify.calls
            ELSE ~verify'.isVerifying /\ verify'.calls = verify.calls + 1
       /\ verify.isVerifying =>
            (~verify'.isVerifying /\ verify'.calls = verify.calls + 1)
       /\ verify'.calls # verify.calls =>
            /\ verify'.calls = verify.calls + 1
            /\ ~verify'.isVerifying
            /\ verify.apiKey]_vars

\* The second attempt ended in the catch block: two onVerify calls so far,
\* the flag clear.
C35_Witness ==
  /\ last = Caught
  /\ ~verify.isVerifying
  /\ verify.calls = 2
  /\ verify.reported = "false"
  /\ verify.verificationResult = "failed"
  /\ sceneReady

\* C36: every update of the end-effector by the controller (a pointer-down
\* or pointer-move that moved it) or by the replayer (a tick that imposed a
\* frame), and every step that changes its position at all, leaves the
\* visual position equal to the body translation, at height ROBOT_ARM_Y.
C36_ArmVisualEqualsBodyAtArmHeight ==
  [][(\/ (OnPointerDown \/ OnPointerMove) /\ last' = Ran
      \/ last'.op = "tick" /\ last'.imposed
      \/ armPos' # armPos
      \/ armBody' # armBody) =>
       /\ armPos' = armBody'
       /\ armPos'.y = ROBOT_ARM_Y]_vars

\* A pointer-down during a replay took the arm from the replayed pose to
\* the pointer: mesh and body are both there, at arm height.
C36_Witness ==
  /\ isReplayingRef
  /\ isDragging
  /\ last = Ran
  /\ armPos = Vec3(3600, ROBOT_ARM_Y, -3300)
  /\ armBody = armPos

\* C37: a pointer-move outside a drag leaves the end-effector where it is,
\* and one that moves it happens in a drag; a drag begins with a pointer-down
\* whose ray hit the ground plane and ends with the next pointer-up, and
\* nothing else changes isDragging.
C37_PointerMoveOnlyInDrag ==
  [][/\ (OnPointerMove /\ ~isDragging) =>
          (armPos' = armPos /\ armBody' = armBody /\ last' = Skipped("pointerMove"))
     /\ (OnPointerMove /\ last' = Ran) =>
          (isDragging /\ armPos'.x = 3600 /\ armPos'.z = -3300)
     /\ (OnPointerDown /\ ~isDragging) => (isDragging' <=> last' = Ran)
     /\ OnPointerUp => ~isDragging'
     /\ (isDragging' # isDragging) => (OnPointerDown \/ OnPointerUp)]_vars

\* After a drag that took the arm to the pointer and a pointer-up, a
\* pointer-move was ignored: the arm is still where the drag left it.
C37_Witness ==
  /\ ~isDragging
  /\ last = Skipped("pointerMove")
  /\ armPos.x = 3600
  /\ armPos.z = -3300
  /\ ~isReplayingRef

\* C38: the frame keeps no height (its z is the constant 0.76), and a replay
\* tick that imposes a frame puts every object, mesh and body, at height
\* 0.375 and the end-effector at 0.3, also when the objects were in the air
\* and the end-effector at its initial height 0.4 when the frame was taken.
C38_ReplayImposesFixedHeights ==
  [][/\ (isRecordingRef /\ sceneReady /\ TimerCallback) =>
          LET frame == buffer'[Len(buffer')]
          IN /\ frame.robotArm.z = PhysZFixed
             /\ \A i \in 1..NumObjects : frame.objects[i].position.z = PhysZFixed
     /\ (last'.op = "tick" /\ last'.imposed /\ Animate) =>
          /\ armPos'.y = ROBOT_ARM_Y
          /\ armBody'.y = ROBOT_ARM_Y
          /\ \A i \in 1..NumObjects :
               /\ meshes'[i].position.y = ActualHeight
               /\ bodies'[i].position.y = ActualHeight]_vars

\* A frame taken during the fall with the arm untouched at (0, 0.4, 0) was
\* imposed: the arm is at (0, 0.3, 0), a point only this replay puts it at,
\* and the objects are at 0.375.
C38_Witness ==
  /\ last.op = "tick"
  /\ last.imposed
  /\ Len(buffer) = 1
  /\ armPos = Vec3(0, ROBOT_ARM_Y, 0)
  /\ armBody = armPos
  /\ \A i \in 1..NumObjects : meshes[i].position.y = ActualHeight
  /\ replayEnds = 0

====
